---- MODULE Spec2Model ----
(***************************************************************************)
(* The asynchronous request/result pipeline of ml-learn:                   *)
(*   gateway  (services/gateway/app.py)   submit, fetch, result ingestor,  *)
(*                                        bounded result cache             *)
(*   worker   (services/ml_worker/worker.py) consume, classify, publish    *)
(*   bus      the two Kafka topics, seen through shared/kafka_utils.py     *)
(*                                                                         *)
(* One action is one stretch of a coroutine between two suspension points  *)
(* (await); the code between two awaits runs atomically under asyncio.     *)
(* A create_producer / create_consumer call, whose attempts touch nothing  *)
(* another task reads, is one action.                                      *)
(***************************************************************************)
EXTENDS Integers, Sequences, FiniteSets, TLC

\* ------------------------------------------------------------------ bounds

\* Largest cache capacity explored; MAX_RESULTS ranges over 1..MaxCapacity.
MaxCapacity == 2
\* Messages put on the bus from outside the worker (submits and foreign sends).
MaxMsgs == 2
\* Largest max_retries setting explored (10 by default in the configs).
MaxRetries == 2

\* ------------------------------------------------------- program constants

\* Field(..., min_length=1, max_length=5000)
MinTextLength == 1
MaxTextLength == 5000

None == "None"

\* ------------------------------------------------------------------ inputs

\* Identifiers a caller supplies, and the ones uuid4 can generate.
CallerIds == {"a"}
Uuids == {"u1"}
\* request_id = "unknown" until the request is decoded.
UnknownId == "unknown"
\* request_id is a str without a length bound: the empty string validates.
EmptyId == ""

\* A text is its length and what the classifier does with it; the classifier
\* is a deterministic black box (SentimentModel.predict).
Texts ==
    { [len |-> 0,    body |-> "empty"],
      [len |-> 1,    body |-> "great product"],
      [len |-> 5000, body |-> "boom"],
      [len |-> 5001, body |-> "too long"] }

VARIABLES
    \* the bus
    reqTopic,       \* ml.prediction.requests: sequence of [key, value]
    resTopic,       \* ml.prediction.results
    injected,       \* number of messages sent by submit or by foreign producers
    \* gateway process
    gpc,            \* "init", "serving", "stopped", "failed"
    producer,       \* app.producer: None, "started", "stopped"
    MAX_RESULTS,    \* capacity of the result cache (10_000 in app.py; here
                    \* any capacity from 1 to MaxCapacity, fixed at start)
    results_store,  \* OrderedDict: sequence of [k, v], oldest first
    writeOrder,     \* history: identifiers by latest write, oldest first
    usedUuids,      \* identifiers uuid4 has produced for accepted requests
                    \* (uuid4 never gives one of them again)
    resp,           \* the HTTP response being delivered, with what the call did
    boot,           \* the create_producer / create_consumer call that has just
                    \* returned or raised, with what it did
    \* result ingestor task (_consume_results)
    ipc,            \* "idle" (no task yet), "connect", "poll", "commit",
                    \* "stopped" (cancelled), "fatal" (ended by an exception)
    consumer,       \* app.consumer: None, "started", "stopped"
    iPos,           \* consumer position in resTopic (offsets start at 0)
    iCommitted,     \* committed offset of group gateway-results-consumer
    \* inference worker (run_worker)
    wpc,            \* "connect", "connect_producer", "poll", "publish",
                    \* "commit", "err_publish", "err_commit",
                    \* "stopped" (cancelled), "crashed" (left by an exception)
    wConsumer,      \* None, "started", "stopped"
    wProducer,
    wPos,           \* consumer position in reqTopic
    wCommitted,     \* committed offset of group ml-worker-group
    request_id,     \* the loop's local request_id
    result,         \* the loop's local result (completed), or None
    wLog            \* history: what the worker did for the message in hand

busVars == <<reqTopic, resTopic, injected>>
cacheVars == <<MAX_RESULTS, results_store, writeOrder>>
gwVars == <<gpc, producer, usedUuids>>
ingVars == <<ipc, consumer, iPos, iCommitted>>
wrkVars == <<wpc, wConsumer, wProducer, wPos, wCommitted, request_id, result, wLog>>
vars == <<busVars, cacheVars, gwVars, resp, boot, ingVars, wrkVars>>

\* ------------------------------------------------------------ result cache

Keys(store) == { store[i].k : i \in 1..Len(store) }

\* OrderedDict.get(key): the value, or None.
StoreGet(store, key) ==
    IF \E i \in 1..Len(store) : store[i].k = key
    THEN (CHOOSE e \in { store[i] : i \in 1..Len(store) } : e.k = key).v
    ELSE None

\* d[key] = value: overwrite in place, or append a new key at the end.
SetItem(store, key, value) ==
    IF key \in Keys(store)
    THEN [ i \in 1..Len(store) |->
             IF store[i].k = key THEN [k |-> key, v |-> value] ELSE store[i] ]
    ELSE Append(store, [k |-> key, v |-> value])

\* d.move_to_end(key)
MoveToEnd(store, key) ==
    SelectSeq(store, LAMBDA e : e.k # key)
        \o SelectSeq(store, LAMBDA e : e.k = key)

\* while len(d) > cap: d.popitem(last=False)
RECURSIVE PopOldest(_, _)
PopOldest(store, cap) ==
    IF Len(store) > cap THEN PopOldest(Tail(store), cap) ELSE store

\* Mutant: the update keeps its old position (no move_to_end).
StoreResultNoPromote(store, cap, rid, value) ==
    PopOldest(SetItem(store, rid, value), cap)

\* Mutant: the bound is checked before the insert, not after.
StoreResultEvictFirst(store, cap, rid, value) ==
    MoveToEnd(SetItem(PopOldest(store, cap), rid, value), rid)

\* Mutant: the eviction pops the newest entry (popitem(last=True)).
RECURSIVE PopNewest(_, _)
PopNewest(store, cap) ==
    IF Len(store) > cap THEN PopNewest(SubSeq(store, 1, Len(store) - 1), cap)
    ELSE store
StoreResultPopNewest(store, cap, rid, value) ==
    PopNewest(MoveToEnd(SetItem(store, rid, value), rid), cap)

\* Mutant: the entry is in the dict before the eviction has run.
StoreResultUnbounded(store, cap, rid, value) ==
    MoveToEnd(SetItem(store, rid, value), rid)

\* Mutant: an identifier already held keeps its old result (setdefault).
StoreResultSetDefault(store, cap, rid, value) ==
    PopOldest(MoveToEnd(IF rid \in Keys(store) THEN store
                        ELSE SetItem(store, rid, value), rid), cap)

\* _store_result(request_id, result)
StoreResult(store, cap, rid, value) ==
    PopOldest(MoveToEnd(SetItem(store, rid, value), rid), cap)

\* History of writes: the identifiers ever written, by latest write.
Promote(order, rid) == SelectSeq(order, LAMBDA x : x # rid) \o <<rid>>

\* ------------------------------------------------------------------ schemas

\* PredictionRequest.text: Field(..., min_length=1, max_length=5000)
ValidText(text) == text.len >= MinTextLength /\ text.len <= MaxTextLength

\* PredictionRequest(**doc): the fields validate (created_at, a timestamp with
\* a default, is left out of the documents).
ValidRequestDoc(doc) == doc.request_id # None /\ ValidText(doc.text)

\* PredictionResult(**doc): request_id, label, score, model_name and
\* inference_time_ms are required; null is no str.
ValidResultDoc(doc) == doc.request_id # None /\ doc.label # None

\* PredictionResult(...).model_dump(); scores are in hundredths.
PredictionResult(rid, label, score, ms, status) ==
    [request_id |-> rid, label |-> label, score |-> score,
     model_name |-> "distilbert", inference_time_ms |-> ms, status |-> status]

NoResult == PredictionResult(None, None, 0, 0, None)

\* SentimentModel.predict(text): a black box; the stub raises on "boom".
PredictRaises(text) == text.body = "boom"
Predict(text) ==
    IF text.body = "great product"
    THEN [label |-> "POSITIVE", score |-> 99, inference_time_ms |-> 1]
    ELSE [label |-> "NEGATIVE", score |-> 75, inference_time_ms |-> 1]

\* Mutant: the result is built with the placeholder identifier.
CompletedResultUnknownId(rid, text) ==
    PredictionResult(UnknownId, Predict(text).label, Predict(text).score,
                     Predict(text).inference_time_ms, "completed")

\* The result run_worker builds on success (worker.py 76-83).
CompletedResult(rid, text) ==
    PredictionResult(rid, Predict(text).label, Predict(text).score,
                     Predict(text).inference_time_ms, "completed")

\* Mutant: the error result carries the classifier's default status.
ErrorResultCompleted(rid) == PredictionResult(rid, "ERROR", 0, 0, "completed")

\* The result run_worker builds in its except branch (worker.py 110-117).
ErrorResult(rid) == PredictionResult(rid, "ERROR", 0, 0, "failed")

\* ---------------------------------------------------------------------- bus

\* value_serializer: json.dumps(v).encode("utf-8")
ValueSerializer(doc) == [enc |-> "json", doc |-> doc]
\* key_serializer: k.encode("utf-8") if k else None
KeySerializer(k) == IF k # "" THEN [utf8 |-> k] ELSE [utf8 |-> None]
\* value_deserializer: json.loads(v.decode("utf-8")); raises on other bytes.
DeserializerRaises(bytes) == bytes.enc # "json"
ValueDeserializer(bytes) == bytes.doc

\* produce_message(producer, topic, key, value) once send_and_wait succeeds.
Produced(topic, key, doc) ==
    Append(topic, [key |-> KeySerializer(key), value |-> ValueSerializer(doc)])

\* The message at an offset (offsets start at 0).
At(topic, offset) == topic[offset + 1]

\* Mutant: the consumer hands out the same record again.
NextPositionAgain(position) == position

\* async for msg in consumer: the position after a record is handed out.
NextPosition(position) == position + 1

\* What a producer other than this gateway and this worker can leave on a
\* topic: bytes that are no JSON, JSON that fails the schema and, on the
\* results topic, the result of another worker of the group.
Garbage == [enc |-> "raw", doc |-> NoResult]
ForeignRequests ==
    { Garbage,
      ValueSerializer([request_id |-> "a", text |-> [len |-> 0, body |-> "empty"]]) }
ForeignResults ==
    { Garbage,
      ValueSerializer(PredictionResult("a", None, 0, 0, "completed")),
      ValueSerializer(ErrorResult("a")) }

\* ----------------------------------------------------- connection bootstrap

\* for attempt in range(1, max_retries + 1): the loop of create_producer and
\* of create_consumer from a given attempt on, outcomes[i] being what the i-th
\* start() answers (TRUE: connected, FALSE: raised). The result is the number
\* of start() calls made and whether a handle is returned; otherwise the call
\* raises: the exception of the last start(), or the RuntimeError after an
\* empty loop. The trace is what the call awaited, in order: a start() that
\* connected, a start() that failed, a sleep of retry_delay.
Made(attempts, returned, trace) ==
    [attempts |-> attempts, returned |-> returned, trace |-> trace]

\* Mutant: the last failure sleeps too and the error is raised after the loop.
RECURSIVE StartLoopSleepsLast(_, _, _)
StartLoopSleepsLast(outcomes, max_retries, attempt) ==
    IF attempt > max_retries
    THEN Made(attempt - 1, FALSE, <<>>)
    ELSE IF outcomes[attempt]
    THEN Made(attempt, TRUE, <<"connected">>)
    ELSE LET rest == StartLoopSleepsLast(outcomes, max_retries, attempt + 1)
         IN  Made(rest.attempts, rest.returned, <<"failed", "sleep">> \o rest.trace)

RECURSIVE StartLoop(_, _, _)
StartLoop(outcomes, max_retries, attempt) ==
    IF attempt > max_retries
    THEN Made(attempt - 1, FALSE, <<>>)
    ELSE IF outcomes[attempt]
    THEN Made(attempt, TRUE, <<"connected">>)
    ELSE IF attempt = max_retries
    THEN Made(attempt, FALSE, <<"failed">>)
    ELSE \* await asyncio.sleep(retry_delay), then the next attempt
         LET rest == StartLoop(outcomes, max_retries, attempt + 1)
         IN  Made(rest.attempts, rest.returned, <<"failed", "sleep">> \o rest.trace)

\* Mutant: the loop is range(1, max_retries), one attempt short.
CreateHandleShort(outcomes, max_retries) == StartLoop(outcomes, max_retries - 1, 1)

\* Mutant: see StartLoopSleepsLast.
CreateHandleSleepsLast(outcomes, max_retries) ==
    StartLoopSleepsLast(outcomes, max_retries, 1)

\* Mutant: after a loop that made no attempt the handle is returned as it is.
CreateHandleUnstarted(outcomes, max_retries) ==
    LET made == StartLoop(outcomes, max_retries, 1)
    IN  IF made.attempts = 0 THEN Made(0, TRUE, <<>>) ELSE made

\* create_producer(...), create_consumer(...): the same loop in both.
CreateHandle(outcomes, max_retries) == StartLoop(outcomes, max_retries, 1)

\* The max_retries settings explored; with 0 the loop is empty.
Retries == 0..MaxRetries
\* max_retries is an int: the settings with a negative one as well.
AnyRetries == (0 - 1)..MaxRetries
\* What the start() calls of one create_* call can answer.
Outcomes(oks, max_retries) == [1..max_retries -> oks]

\* The record of a create_* call: who called, with which max_retries, what
\* start() answered, how many start() calls were made, handle or exception.
Boot(who, max_retries, outcomes, made) ==
    [who |-> who, max_retries |-> max_retries, outcomes |-> outcomes,
     attempts |-> made.attempts, returned |-> made.returned,
     trace |-> made.trace]
NoBoot == Boot("none", 0, <<>>, Made(0, FALSE, <<>>))

\* ------------------------------------------------------------------ gateway

\* A response: the HTTP code and body, and for the record the identifier the
\* caller gave (None: none), the call's text, the send attempts it made and
\* what the bus answered to the first.
Resp(op, code, rid, attempts, firstOk, text, body) ==
    [op |-> op, code |-> code, rid |-> rid, attempts |-> attempts,
     firstOk |-> firstOk, text |-> text, body |-> body]
NoText == [len |-> 0, body |-> "none"]
NoResp == Resp("none", 0, None, 0, FALSE, NoText, NoResult)
\* A response is delivered, and the outcome of a bootstrap logged, before
\* anything else happens.
Delivered == resp' = NoResp /\ boot' = NoBoot
\* The bodies submit_prediction and get_prediction_result return without a result.
StatusBody(rid, status) == PredictionResult(rid, None, 0, 0, status)

\* lifespan, before the yield: create_producer returns a handle or raises.
\* The start() calls of one create_* call touch nothing another task reads,
\* so the call is one step; a cancellation during it is a cancellation in the
\* state before the step.
GatewayStart(oks, retries) ==
    /\ resp' = NoResp
    /\ gpc = "init"
    /\ \E max_retries \in retries : \E outcomes \in Outcomes(oks, max_retries) :
         LET made == CreateHandle(outcomes, max_retries) IN
         /\ boot' = Boot("gateway_producer", max_retries, outcomes, made)
         /\ IF made.returned
            THEN /\ producer' = "started"
                 /\ gpc' = "serving"
                 /\ ipc' = "connect"     \* asyncio.create_task(_consume_results())
            ELSE /\ gpc' = "failed"      \* the exception leaves lifespan
                 /\ UNCHANGED <<producer, ipc>>
    /\ UNCHANGED <<busVars, cacheVars, usedUuids, consumer, iPos, iCommitted, wrkVars>>

\* lifespan, after the yield: cancel the ingestor, await it, stop the producer.
\* The CancelledError reaches the ingestor at its await and its finally block
\* stops the consumer when the global is set.
GatewayShutdown ==
    /\ Delivered
    /\ gpc = "serving"
    /\ gpc' = "stopped"
    /\ producer' = IF producer # None THEN "stopped" ELSE producer
    /\ IF ipc \in {"connect", "poll", "commit"}
       THEN /\ ipc' = "stopped"
            /\ consumer' = IF consumer # None THEN "stopped" ELSE consumer
       ELSE UNCHANGED <<ipc, consumer>>
    /\ UNCHANGED <<busVars, cacheVars, usedUuids, iPos, iCommitted, wrkVars>>

\* Mutant: a failed publish is retried once.
SendAttemptsRetry(outcomes) ==
    IF outcomes[1] THEN [attempts |-> 1, ok |-> TRUE]
    ELSE [attempts |-> 2, ok |-> outcomes[2]]

\* The send_and_wait calls of one submit_prediction, given what the bus answers
\* to a first and to a second attempt: one call, inside one try block.
SendAttempts(outcomes) == [attempts |-> 1, ok |-> outcomes[1]]

\* Mutant: the length bound is exclusive.
AcceptsTextExclusive(text) == text.len >= MinTextLength /\ text.len < MaxTextLength

\* FastAPI builds the PredictionRequest from the body before the handler runs.
AcceptsText(text) == ValidText(text)

\* POST /predict with body {text, request_id?}; rid = None when the caller
\* gives no identifier and uuid4 makes one.
SubmitPrediction(rid, text, oks) ==
    /\ gpc = "serving"
    /\ boot' = NoBoot
    /\ IF ~AcceptsText(text)
       THEN /\ resp' = Resp("submit", 422, rid, 0, FALSE, text, StatusBody(None, None))
            /\ UNCHANGED <<busVars, usedUuids>>
       ELSE \E id \in (IF rid = None THEN Uuids \ usedUuids ELSE {rid}) :
            IF producer = None
            THEN /\ resp' = Resp("submit", 503, rid, 0, FALSE, text,
                                 StatusBody(None, None))
                 /\ UNCHANGED <<busVars, usedUuids>>
            ELSE \E outcomes \in oks \X oks :
                 LET sent == SendAttempts(outcomes) IN
                 IF sent.ok
                 THEN /\ injected < MaxMsgs
                      /\ reqTopic' = Produced(reqTopic, id,
                                         [request_id |-> id, text |-> text])
                      /\ injected' = injected + 1
                      /\ usedUuids' = IF rid = None THEN usedUuids \cup {id}
                                      ELSE usedUuids
                      /\ resp' = Resp("submit", 202, rid, sent.attempts, outcomes[1],
                                      text, StatusBody(id, "pending"))
                      /\ UNCHANGED resTopic
                 ELSE /\ resp' = Resp("submit", 503, rid, sent.attempts, outcomes[1],
                                      text, StatusBody(None, None))
                      /\ UNCHANGED <<busVars, usedUuids>>
    /\ UNCHANGED <<cacheVars, gpc, producer, ingVars, wrkVars>>

\* Mutant: an identifier without an entry is answered as not found.
FetchBodyNotFound(store, rid) ==
    IF rid \in Keys(store) THEN StoreGet(store, rid) ELSE StatusBody(None, "not_found")

\* The body get_prediction_result returns: the cached dict, or pending.
FetchBody(store, rid) ==
    IF rid \in Keys(store) THEN StoreGet(store, rid) ELSE StatusBody(rid, "pending")

\* Mutant: a read promotes the entry it finds, as a read-through LRU does.
AfterGetPromote(store, rid) ==
    IF rid \in Keys(store) THEN MoveToEnd(store, rid) ELSE store

\* results_store.get(request_id) leaves the dict as it is.
AfterGet(store, rid) == store

\* GET /predict/{request_id}
GetPredictionResult(rid) ==
    /\ gpc = "serving"
    /\ boot' = NoBoot
    /\ resp' = Resp("fetch", 200, rid, 0, FALSE, NoText, FetchBody(results_store, rid))
    /\ results_store' = AfterGet(results_store, rid)
    /\ UNCHANGED <<busVars, MAX_RESULTS, writeOrder, gpc, producer, usedUuids,
                   ingVars, wrkVars>>

\* kafka_ok = producer is not None
KafkaOk(handle) == handle # None

\* HealthResponse(status=..., kafka_connected=kafka_ok); service and version
\* are settings.
HealthResponse(kafka_ok) ==
    [status |-> IF kafka_ok THEN "healthy" ELSE "degraded",
     kafka_connected |-> kafka_ok]

\* GET /health
HealthCheck ==
    /\ gpc = "serving"
    /\ boot' = NoBoot
    /\ resp' = Resp("health", 200, None, 0, FALSE, NoText,
                    HealthResponse(KafkaOk(producer)))
    /\ UNCHANGED <<busVars, cacheVars, gwVars, ingVars, wrkVars>>

\* ----------------------------------------------------------------- ingestor

\* create_consumer(...) in _consume_results: a handle, or an exception that
\* "except Exception" logs and that ends the task.
IngestorConnect(oks, retries) ==
    /\ resp' = NoResp
    /\ ipc = "connect"
    /\ \E max_retries \in retries : \E outcomes \in Outcomes(oks, max_retries) :
         LET made == CreateHandle(outcomes, max_retries) IN
         /\ boot' = Boot("gateway_consumer", max_retries, outcomes, made)
         /\ IF made.returned
            THEN /\ consumer' = "started"
                 /\ ipc' = "poll"
                 /\ iPos' = iCommitted  \* auto_offset_reset="earliest"
            ELSE \* results_consumer_fatal_error; finally: consumer is None
                 /\ ipc' = "fatal"
                 /\ UNCHANGED <<consumer, iPos>>
    /\ UNCHANGED <<busVars, cacheVars, gwVars, iCommitted, wrkVars>>

\* One turn of "async for msg in consumer" up to the await of commit().
\* The consumer runs value_deserializer inside its iterator (aiokafka decodes
\* a record when getone() hands it out), outside the loop body's try block,
\* and the iterator lets the exception through.
IngestorPoll ==
    /\ Delivered
    /\ ipc = "poll"
    /\ iPos < Len(resTopic)
    /\ LET msg == At(resTopic, iPos) IN
       IF DeserializerRaises(msg.value)
       THEN \* results_consumer_fatal_error, then finally: consumer.stop()
            /\ ipc' = "fatal"
            /\ consumer' = "stopped"
            /\ UNCHANGED <<iPos, cacheVars>>
       ELSE LET doc == ValueDeserializer(msg.value) IN
            /\ iPos' = NextPosition(iPos)
            /\ consumer' = consumer
            /\ IF ~ValidResultDoc(doc)
               THEN \* result_processing_error: logged, next message
                    /\ ipc' = "poll"
                    /\ UNCHANGED cacheVars
               ELSE /\ results_store' =
                          StoreResult(results_store, MAX_RESULTS, doc.request_id, doc)
                    /\ writeOrder' = Promote(writeOrder, doc.request_id)
                    /\ MAX_RESULTS' = MAX_RESULTS
                    /\ ipc' = "commit"
    /\ UNCHANGED <<busVars, gwVars, iCommitted, wrkVars>>

\* consumer.commit() with no argument commits the consumer's position, that
\* is every offset it has handed out.
CommitOffset(position, committed) == position

\* await consumer.commit() in the loop body; a failure is logged by the body's
\* "except Exception".
IngestorCommit(oks) ==
    /\ Delivered
    /\ ipc = "commit"
    /\ \E ok \in oks :
         iCommitted' = IF ok THEN CommitOffset(iPos, iCommitted) ELSE iCommitted
    /\ ipc' = "poll"
    /\ UNCHANGED <<busVars, cacheVars, gwVars, consumer, iPos, wrkVars>>

\* ------------------------------------------------------------------- worker

Event(ev, ok, doc) == [ev |-> ev, ok |-> ok, doc |-> doc]

\* The finally block of run_worker: consumer.stop(), producer.stop().
WorkerFinally(pc) ==
    /\ wpc' = pc
    /\ wConsumer' = "stopped"
    /\ wProducer' = "stopped"

\* create_consumer(...), before the try block: a handle, or the exception
\* leaves run_worker.
WorkerConnectConsumer(oks, retries) ==
    /\ resp' = NoResp
    /\ wpc = "connect"
    /\ \E max_retries \in retries : \E outcomes \in Outcomes(oks, max_retries) :
         LET made == CreateHandle(outcomes, max_retries) IN
         /\ boot' = Boot("worker_consumer", max_retries, outcomes, made)
         /\ IF made.returned
            THEN /\ wConsumer' = "started"
                 /\ wpc' = "connect_producer"
                 /\ wPos' = wCommitted  \* auto_offset_reset="earliest"
            ELSE /\ wpc' = "crashed"
                 /\ UNCHANGED <<wConsumer, wPos>>
    /\ UNCHANGED <<busVars, cacheVars, gwVars, ingVars,
                   wProducer, wCommitted, request_id, result, wLog>>

\* create_producer(...), still before the try block: when it raises, the
\* finally block is not reached and the consumer stays as it is.
WorkerConnectProducer(oks, retries) ==
    /\ resp' = NoResp
    /\ wpc = "connect_producer"
    /\ \E max_retries \in retries : \E outcomes \in Outcomes(oks, max_retries) :
         LET made == CreateHandle(outcomes, max_retries) IN
         /\ boot' = Boot("worker_producer", max_retries, outcomes, made)
         /\ IF made.returned
            THEN /\ wProducer' = "started"
                 /\ wpc' = "poll"
            ELSE /\ wpc' = "crashed"
                 /\ UNCHANGED wProducer
    /\ UNCHANGED <<busVars, cacheVars, gwVars, ingVars,
                   wConsumer, wPos, wCommitted, request_id, result, wLog>>

\* Mutant: the identifier of the message before is kept.
LoopTopIdStale(previous) == previous

\* request_id = "unknown" at the top of the loop body (worker.py 62).
LoopTopId(previous) == UnknownId

\* One turn of "async for msg in consumer" up to the first await of the body:
\* decode, classify, build the result (worker.py 61-83).
WorkerPoll ==
    /\ Delivered
    /\ wpc = "poll"
    /\ wPos < Len(reqTopic)
    /\ LET msg == At(reqTopic, wPos) IN
       IF DeserializerRaises(msg.value)
       THEN \* the iterator raises outside the body's try: only finally runs
            /\ WorkerFinally("crashed")
            /\ wLog' = <<Event("deserialize", FALSE, NoResult)>>
            /\ UNCHANGED <<wPos, request_id, result>>
       ELSE LET doc == ValueDeserializer(msg.value) IN
            /\ wPos' = NextPosition(wPos)
            /\ UNCHANGED <<wConsumer, wProducer>>
            /\ IF ~ValidRequestDoc(doc)
               THEN /\ request_id' = LoopTopId(request_id)
                    /\ result' = NoResult
                    /\ wLog' = <<Event("decode", FALSE, NoResult)>>
                    /\ wpc' = "err_publish"
               ELSE /\ request_id' = doc.request_id
                    /\ IF PredictRaises(doc.text)
                       THEN /\ result' = NoResult
                            /\ wLog' = <<Event("classify", FALSE, NoResult)>>
                            /\ wpc' = "err_publish"
                       ELSE /\ result' = CompletedResult(doc.request_id, doc.text)
                            /\ wLog' = <<Event("classify", TRUE, NoResult)>>
                            /\ wpc' = "publish"
    /\ UNCHANGED <<busVars, cacheVars, gwVars, ingVars, wCommitted>>

\* await produce_message(... value=result.model_dump()) (worker.py 85-90).
WorkerPublish(oks) ==
    /\ Delivered
    /\ wpc = "publish"
    /\ \E ok \in oks :
         /\ resTopic' = IF ok THEN Produced(resTopic, request_id, result) ELSE resTopic
         /\ wLog' = Append(wLog, Event("publish", ok, result))
         /\ wpc' = IF ok THEN "commit" ELSE "err_publish"
    /\ UNCHANGED <<reqTopic, injected, cacheVars, gwVars, ingVars,
                   wConsumer, wProducer, wPos, wCommitted, request_id, result>>

\* await consumer.commit() inside the try block (worker.py 94).
WorkerCommit(oks) ==
    /\ Delivered
    /\ wpc = "commit"
    /\ \E ok \in oks :
         /\ wCommitted' = IF ok THEN CommitOffset(wPos, wCommitted) ELSE wCommitted
         /\ wLog' = Append(wLog, Event("commit", ok, NoResult))
         /\ wpc' = IF ok THEN "poll" ELSE "err_publish"
    /\ UNCHANGED <<busVars, cacheVars, gwVars, ingVars,
                   wConsumer, wProducer, wPos, request_id, result>>

\* Mutant: the except branch goes to its commit without sending anything.
WorkerErrPublishSkipped(oks) ==
    /\ Delivered
    /\ wpc = "err_publish"
    /\ wpc' = "err_commit"
    /\ UNCHANGED <<busVars, cacheVars, gwVars, ingVars,
                   wConsumer, wProducer, wPos, wCommitted, request_id, result, wLog>>

\* The except branch: build and send the error result; a failure of the send
\* is logged (worker.py 103-125).
WorkerErrPublish(oks) ==
    /\ Delivered
    /\ wpc = "err_publish"
    /\ \E ok \in oks :
         /\ resTopic' = IF ok THEN Produced(resTopic, request_id, ErrorResult(request_id))
                        ELSE resTopic
         /\ wLog' = Append(wLog, Event("publish", ok, ErrorResult(request_id)))
    /\ wpc' = "err_commit"
    /\ UNCHANGED <<reqTopic, injected, cacheVars, gwVars, ingVars,
                   wConsumer, wProducer, wPos, wCommitted, request_id, result>>

\* await consumer.commit() at the end of the except branch (worker.py 127):
\* a failure here is inside no try but the outer one.
WorkerErrCommit(oks) ==
    /\ Delivered
    /\ wpc = "err_commit"
    /\ \E ok \in oks :
         /\ wLog' = Append(wLog, Event("commit", ok, NoResult))
         /\ IF ok
            THEN /\ wCommitted' = CommitOffset(wPos, wCommitted)
                 /\ wpc' = "poll"
                 /\ UNCHANGED <<wConsumer, wProducer>>
            ELSE /\ WorkerFinally("crashed")
                 /\ UNCHANGED wCommitted
    /\ UNCHANGED <<busVars, cacheVars, gwVars, ingVars, wPos, request_id, result>>

\* asyncio cancels run_worker at one of its awaits. In the loop: except
\* CancelledError, then finally. In create_consumer or create_producer, at
\* start() or at the sleep between two attempts: the CancelledError leaves
\* run_worker before its try block, so the finally block does not run.
WorkerCancel ==
    /\ Delivered
    /\ wpc \in {"connect", "connect_producer",
                "poll", "publish", "commit", "err_publish", "err_commit"}
    /\ IF wpc \in {"connect", "connect_producer"}
       THEN /\ wpc' = "stopped"
            /\ UNCHANGED <<wConsumer, wProducer>>
       ELSE WorkerFinally("stopped")
    /\ UNCHANGED <<busVars, cacheVars, gwVars, ingVars,
                   wPos, wCommitted, request_id, result, wLog>>

\* ---------------------------------------------------------- other producers

\* The bus is shared: a producer that is neither the gateway nor the worker
\* leaves a message on a topic.
ForeignRequest ==
    /\ Delivered
    /\ injected < MaxMsgs
    /\ \E bytes \in ForeignRequests :
         reqTopic' = Append(reqTopic, [key |-> KeySerializer("a"), value |-> bytes])
    /\ injected' = injected + 1
    /\ UNCHANGED <<resTopic, cacheVars, gwVars, ingVars, wrkVars>>

ForeignResult ==
    /\ Delivered
    /\ injected < MaxMsgs
    /\ \E bytes \in ForeignResults :
         resTopic' = Append(resTopic, [key |-> KeySerializer("a"), value |-> bytes])
    /\ injected' = injected + 1
    /\ UNCHANGED <<reqTopic, cacheVars, gwVars, ingVars, wrkVars>>

\* ----------------------------------------------------------- specifications

Init ==
    /\ reqTopic = <<>> /\ resTopic = <<>> /\ injected = 0
    /\ gpc = "init" /\ producer = None
    /\ MAX_RESULTS \in 1..MaxCapacity
    /\ results_store = <<>> /\ writeOrder = <<>>
    /\ usedUuids = {} /\ resp = NoResp /\ boot = NoBoot
    /\ ipc = "idle" /\ consumer = None /\ iPos = 0 /\ iCommitted = 0
    /\ wpc = "connect" /\ wConsumer = None /\ wProducer = None
    /\ wPos = 0 /\ wCommitted = 0
    /\ request_id = UnknownId /\ result = NoResult /\ wLog = <<>>

\* Every bus operation may succeed or fail.
Next ==
    \/ GatewayStart(BOOLEAN, Retries)
    \/ GatewayShutdown
    \/ \E rid \in CallerIds \cup {None}, text \in Texts :
           SubmitPrediction(rid, text, BOOLEAN)
    \/ \E rid \in CallerIds \cup Uuids : GetPredictionResult(rid)
    \/ HealthCheck
    \/ IngestorConnect(BOOLEAN, Retries)
    \/ IngestorPoll
    \/ IngestorCommit(BOOLEAN)
    \/ WorkerConnectConsumer(BOOLEAN, Retries)
    \/ WorkerConnectProducer(BOOLEAN, Retries)
    \/ WorkerPoll
    \/ WorkerPublish(BOOLEAN)
    \/ WorkerCommit(BOOLEAN)
    \/ WorkerErrPublish(BOOLEAN)
    \/ WorkerErrCommit(BOOLEAN)
    \/ WorkerCancel
    \/ ForeignRequest
    \/ ForeignResult

Spec == Init /\ [][Next]_vars

\* No bus operation fails, nothing is cancelled and only the gateway and the
\* worker write to the topics; the event loops run every task that can take a
\* step and the bus hands over every message.
LiveNext ==
    \/ GatewayStart({TRUE}, Retries \ {0})
    \/ \E rid \in CallerIds \cup {None}, text \in Texts :
           SubmitPrediction(rid, text, {TRUE})
    \/ \E rid \in CallerIds \cup Uuids : GetPredictionResult(rid)
    \/ IngestorConnect({TRUE}, Retries \ {0})
    \/ IngestorPoll
    \/ IngestorCommit({TRUE})
    \/ WorkerConnectConsumer({TRUE}, Retries \ {0})
    \/ WorkerConnectProducer({TRUE}, Retries \ {0})
    \/ WorkerPoll
    \/ WorkerPublish({TRUE})
    \/ WorkerCommit({TRUE})
    \/ WorkerErrPublish({TRUE})
    \/ WorkerErrCommit({TRUE})

LiveSpec ==
    /\ Init
    /\ [][LiveNext]_vars
    /\ WF_vars(GatewayStart({TRUE}, Retries \ {0}))
    /\ WF_vars(IngestorConnect({TRUE}, Retries \ {0}))
    /\ WF_vars(IngestorPoll)
    /\ WF_vars(IngestorCommit({TRUE}))
    /\ WF_vars(WorkerConnectConsumer({TRUE}, Retries \ {0}))
    /\ WF_vars(WorkerConnectProducer({TRUE}, Retries \ {0}))
    /\ WF_vars(WorkerPoll)
    /\ WF_vars(WorkerPublish({TRUE}))
    /\ WF_vars(WorkerCommit({TRUE}))
    /\ WF_vars(WorkerErrPublish({TRUE}))
    /\ WF_vars(WorkerErrCommit({TRUE}))

\* The worker process beside a gateway that takes submits: the ingestor and
\* the fetches, which touch nothing the worker reads, are left out.
WorkerNext ==
    \/ GatewayStart(BOOLEAN, Retries)
    \/ \E rid \in CallerIds \cup {None}, text \in Texts :
           SubmitPrediction(rid, text, BOOLEAN)
    \/ WorkerConnectConsumer(BOOLEAN, Retries)
    \/ WorkerConnectProducer(BOOLEAN, Retries)
    \/ WorkerPoll
    \/ WorkerPublish(BOOLEAN)
    \/ WorkerCommit(BOOLEAN)
    \/ WorkerErrPublish(BOOLEAN)
    \/ WorkerErrCommit(BOOLEAN)
    \/ WorkerCancel
    \/ ForeignRequest

WorkerSpec == Init /\ [][WorkerNext]_vars

\* The gateway process on its own: the results topic is written by the other
\* producers, the requests it publishes are consumed by nobody.
GatewayNext ==
    \/ GatewayStart(BOOLEAN, Retries)
    \/ GatewayShutdown
    \/ \E rid \in CallerIds \cup {None}, text \in Texts :
           SubmitPrediction(rid, text, BOOLEAN)
    \/ \E rid \in CallerIds \cup Uuids : GetPredictionResult(rid)
    \/ HealthCheck
    \/ IngestorConnect(BOOLEAN, Retries)
    \/ IngestorPoll
    \/ IngestorCommit(BOOLEAN)
    \/ ForeignResult

GatewaySpec == Init /\ [][GatewayNext]_vars

\* The path of a request over a bus that does not fail, from the submit to
\* the worker's result, for every identifier a caller can give, the empty
\* string among them.
KeyNext ==
    \/ GatewayStart({TRUE}, {1})
    \/ \E rid \in CallerIds \cup {EmptyId, None}, text \in Texts :
           SubmitPrediction(rid, text, {TRUE})
    \/ WorkerConnectConsumer({TRUE}, {1})
    \/ WorkerConnectProducer({TRUE}, {1})
    \/ WorkerPoll
    \/ WorkerPublish({TRUE})
    \/ WorkerCommit({TRUE})
    \/ WorkerErrPublish({TRUE})
    \/ WorkerErrCommit({TRUE})

KeySpec == Init /\ [][KeyNext]_vars

\* The startup of the two processes and their shutdown: no request, no
\* result.
BootNext ==
    \/ GatewayStart(BOOLEAN, Retries)
    \/ GatewayShutdown
    \/ HealthCheck
    \/ IngestorConnect(BOOLEAN, Retries)
    \/ WorkerConnectConsumer(BOOLEAN, Retries)
    \/ WorkerConnectProducer(BOOLEAN, Retries)
    \/ WorkerCancel

BootSpec == Init /\ [][BootNext]_vars

\* The startup with any max_retries an int setting can hold.
AnyBootNext ==
    \/ GatewayStart(BOOLEAN, AnyRetries)
    \/ IngestorConnect(BOOLEAN, AnyRetries)
    \/ WorkerConnectConsumer(BOOLEAN, AnyRetries)
    \/ WorkerConnectProducer(BOOLEAN, AnyRetries)

AnyBootSpec == Init /\ [][AnyBootNext]_vars

\* ---------------------------------------------------- the cache on its own

\* Identifiers and results written to the cache directly.
CacheIds == {"a", "b", "c"}
CacheResults(rid) == { CompletedResult(rid, [len |-> 1, body |-> "great product"]),
                       ErrorResult(rid) }

\* _store_result(request_id, result), called as the ingestor calls it.
CachePut(rid, value) ==
    /\ Delivered
    /\ results_store' = StoreResult(results_store, MAX_RESULTS, rid, value)
    /\ writeOrder' = Promote(writeOrder, rid)
    /\ UNCHANGED <<MAX_RESULTS, busVars, gwVars, ingVars, wrkVars>>

\* A serving gateway whose tasks are idle, as under the test client.
CacheInit ==
    /\ reqTopic = <<>> /\ resTopic = <<>> /\ injected = 0
    /\ gpc = "serving" /\ producer = "started"
    /\ MAX_RESULTS \in 1..MaxCapacity
    /\ results_store = <<>> /\ writeOrder = <<>>
    /\ usedUuids = {} /\ resp = NoResp /\ boot = NoBoot
    /\ ipc = "idle" /\ consumer = None /\ iPos = 0 /\ iCommitted = 0
    /\ wpc = "idle" /\ wConsumer = None /\ wProducer = None
    /\ wPos = 0 /\ wCommitted = 0
    /\ request_id = UnknownId /\ result = NoResult /\ wLog = <<>>

CacheNext ==
    \/ \E rid \in CacheIds : \E value \in CacheResults(rid) : CachePut(rid, value)
    \/ \E rid \in CacheIds : GetPredictionResult(rid)

CacheSpec == CacheInit /\ [][CacheNext]_vars

\* ------------------------------------------------------------------- claims

KeySeq(store) == [ i \in 1..Len(store) |-> store[i].k ]
LastN(seq, n) == SubSeq(seq, Len(seq) - n + 1, Len(seq))
Min(a, b) == IF a <= b THEN a ELSE b
CountEvents(log, ev) == Cardinality({ i \in 1..Len(log) : log[i].ev = ev })
CountSent(log) ==
    Cardinality({ i \in 1..Len(log) : log[i].ev = "publish" /\ log[i].ok })

\* C4: in every state a sequence of _store_result calls and reads reaches, the
\* result cache holds at most MAX_RESULTS entries.
C4_SizeWithinCapacity == Len(results_store) <= MAX_RESULTS

\* More distinct identifiers have been written than fit, and the cache is full.
C4_Witness ==
    Len(writeOrder) > MAX_RESULTS /\ Len(results_store) = MAX_RESULTS

\* C5: after any sequence of puts the cache holds exactly the
\* min(MAX_RESULTS, distinct identifiers written) identifiers whose latest write
\* is most recent, oldest write first: a new identifier at capacity pushes out
\* the one written longest ago, a repeated identifier pushes out nothing and
\* becomes the most recent.
C5_MostRecentlyWritten ==
    KeySeq(results_store) =
        LastN(writeOrder, Min(MAX_RESULTS, Len(writeOrder)))

\* Three identifiers written into a cache of two, the survivors in an order
\* that only a repeated write gives: "a" written after "b", "c" evicted.
C5_Witness ==
    /\ MAX_RESULTS = 2
    /\ writeOrder = <<"c", "b", "a">>
    /\ KeySeq(results_store) = <<"b", "a">>

\* C9: a submit that passes validation makes exactly one publish attempt; when
\* the attempt fails the answer is 503 with no identifier, when it succeeds the
\* answer is the identifier with status pending, and the request is on the topic.
C9_OnePublishAttempt ==
    (resp.op = "submit" /\ resp.code # 422) =>
        /\ resp.attempts = 1
        /\ ~resp.firstOk =>
              resp.code = 503 /\ resp.body.request_id = None
        /\ resp.firstOk =>
              /\ resp.code = 202
              /\ resp.body.status = "pending"
              /\ resp.body.request_id \in CallerIds \cup Uuids
              /\ Len(reqTopic) > 0
              /\ ValueDeserializer(reqTopic[Len(reqTopic)].value) =
                     [request_id |-> resp.body.request_id, text |-> resp.text]

\* A submit whose publish failed, answered 503 after one attempt.
C9_Witness ==
    /\ resp.op = "submit" /\ resp.code = 503
    /\ resp.attempts = 1 /\ ~resp.firstOk

\* C10: submit rejects a text with 422 exactly when its length is outside
\* 1..5000; a rejected submit makes no publish attempt, returns no identifier
\* and changes neither the topics nor the cache.
C10_ValidationBeforePublish ==
    [][ resp'.op = "submit" =>
          /\ resp'.code = 422 <=> (resp'.text.len < 1 \/ resp'.text.len > 5000)
          /\ resp'.code = 422 =>
                /\ resp'.attempts = 0
                /\ resp'.body.request_id = None
                /\ UNCHANGED <<reqTopic, resTopic, results_store>> ]_vars

\* A text of 5001 characters rejected while the topic holds a request.
C10_Witness ==
    /\ resp.op = "submit" /\ resp.code = 422
    /\ resp.text.len = 5001
    /\ Len(reqTopic) > 0

\* The request the worker has in hand: the message just before its position.
InHand == ValueDeserializer(At(reqTopic, wPos - 1).value)
\* The worker is back at the head of its loop after a whole turn.
TurnDone == wpc = "poll" /\ wLog # <<>>

\* C1: for every request the worker consumes there is exactly one commit, and
\* it comes after the publish attempt: never more than one commit in a turn,
\* none before a publish attempt, and one when the turn is over.
C1_ExactlyOneCommit ==
    /\ CountEvents(wLog, "commit") <= 1
    /\ \A i \in 1..Len(wLog) :
          wLog[i].ev = "commit" => \E j \in 1..(i - 1) : wLog[j].ev = "publish"
    /\ TurnDone => CountEvents(wLog, "commit") = 1

\* C2: a result message the ingestor consumed and could not decode is covered
\* by no commit of the ingestor, so a restart hands it over again.
C2_SkippedNeverCommitted ==
    \A k \in 0..(iPos - 1) :
        ~ValidResultDoc(ValueDeserializer(At(resTopic, k).value)) => iCommitted <= k

\* C3: taking a message off a topic never ends a loop: from its poll the
\* worker does not go to its crashed end, nor the ingestor to its fatal end.
C3_NoMessageEndsALoop ==
    [][ /\ wpc = "poll" => wpc' # "crashed"
        /\ ipc = "poll" => ipc' # "fatal" ]_vars

\* The classification raised for the request in hand.
ClassifyRaised == wLog # <<>> /\ wLog[1].ev = "classify" /\ ~wLog[1].ok

\* C7: when the classifier raises for a decoded request A, whatever the worker
\* sends for it is the result (A, failed, "ERROR", 0.0); there is at most one
\* commit, and when the turn is over exactly one, which covers the request.
C7_ClassifyFailureResult ==
    ClassifyRaised =>
        /\ \A i \in 1..Len(wLog) :
              wLog[i].ev = "publish" =>
                  /\ wLog[i].doc.request_id = InHand.request_id
                  /\ wLog[i].doc.status = "failed"
                  /\ wLog[i].doc.label = "ERROR"
                  /\ wLog[i].doc.score = 0
        /\ \A i \in 1..Len(wLog) :
              wLog[i].ev = "publish" /\ wLog[i].ok =>
                  \E j \in 1..Len(resTopic) :
                      /\ ~DeserializerRaises(resTopic[j].value)
                      /\ ValueDeserializer(resTopic[j].value) = wLog[i].doc
        /\ CountEvents(wLog, "commit") <= 1
        /\ TurnDone =>
              /\ CountEvents(wLog, "commit") = 1
              /\ wCommitted = wPos

\* The classifier raised, the failed result went out, the offset is committed.
C7_Witness ==
    /\ ClassifyRaised /\ TurnDone
    /\ CountSent(wLog) = 1
    /\ wCommitted = wPos

\* C8: the worker puts at most one result on the results topic for each
\* request it consumes.
C8_AtMostOneResult == CountSent(wLog) <= 1

\* The result a fetch must come to show for a request.
Terminal(doc, body) ==
    /\ body.request_id = doc.request_id
    /\ IF doc.text.body = "boom"
       THEN body.status = "failed" /\ body.label = "ERROR" /\ body.score = 0
       ELSE /\ body.status = "completed"
            /\ body.label = Predict(doc.text).label
            /\ body.score = Predict(doc.text).score
\* The k-th request of the topic has just been accepted by a submit.
Accepted(k) == resp.op = "submit" /\ resp.code = 202 /\ Len(reqTopic) = k
\* Fetching the identifier of the k-th request gives its terminal result.
Fetched(k) ==
    /\ Len(reqTopic) >= k
    /\ LET doc == ValueDeserializer(reqTopic[k].value) IN
       Terminal(doc, FetchBody(results_store, doc.request_id))

\* C6: when no bus operation fails and the tasks are scheduled fairly, every
\* accepted submit is followed by a state in which fetching its identifier
\* gives the terminal result for its text: completed with the classifier's
\* label and score, or failed with "ERROR" and 0.0 when the classifier raises.
C6_EventuallyFetched == \A k \in 1..MaxMsgs : Accepted(k) ~> Fetched(k)

\* A fetch that answers failed/"ERROR" for a request whose text made the
\* classifier raise.
C6_Witness ==
    \E k \in 1..MaxMsgs :
        /\ Fetched(k)
        /\ ValueDeserializer(reqTopic[k].value).text.body = "boom"
        /\ resp.op = "fetch" /\ resp.body.status = "failed"

\* The failures before the first start() that connects, all of them when
\* none connects.
LeadingFailures(outcomes, n) ==
    IF \E i \in 1..n : outcomes[i]
    THEN (CHOOSE i \in 1..n : outcomes[i] /\ \A j \in 1..(i - 1) : ~outcomes[j]) - 1
    ELSE n

\* C11: a create_producer / create_consumer call whose start() fails K times
\* with K < max_retries and then connects returns a handle after exactly K + 1
\* attempts; one whose start() fails max_retries times makes exactly
\* max_retries attempts and raises instead of returning a handle.
C11_BootstrapAttempts ==
    boot.who # "none" =>
        LET K == LeadingFailures(boot.outcomes, boot.max_retries) IN
        IF K < boot.max_retries
        THEN boot.returned /\ boot.attempts = K + 1
        ELSE ~boot.returned /\ boot.attempts = boot.max_retries

\* The worker's producer connected at the second attempt of two.
C11_Witness ==
    /\ boot.who = "worker_producer" /\ boot.max_retries = 2
    /\ boot.outcomes = <<FALSE, TRUE>>
    /\ boot.returned /\ boot.attempts = 2

\* C12: when the bootstrap of a handle has used up its retries, the process
\* that hosts it does not serve: the gateway has failed to start (producer,
\* result consumer), the worker has left run_worker (consumer, producer).
C12_ExhaustionIsFatal ==
    (boot.who # "none" /\ ~boot.returned) =>
        /\ boot.who \in {"gateway_producer", "gateway_consumer"} => gpc # "serving"
        /\ boot.who \in {"worker_consumer", "worker_producer"} => wpc = "crashed"

\* C13: a task that a cancellation has ended holds no started handle, and the
\* step that ends it, like every step after it, takes no message and commits
\* none.
C13_CancelReleasesHandles ==
    [][ /\ wpc' = "stopped" =>
              /\ wConsumer' # "started" /\ wProducer' # "started"
              /\ UNCHANGED <<wPos, wCommitted, resTopic>>
        /\ ipc' = "stopped" =>
              /\ consumer' # "started"
              /\ UNCHANGED <<iPos, iCommitted, results_store>> ]_vars

\* The identifiers the write history says are held.
Held(order, cap) ==
    LET held == LastN(order, Min(cap, Len(order)))
    IN  { held[i] : i \in 1..Len(held) }

C15_PutThenGet ==
    [][ \A rid \in CacheIds : \A value \in CacheResults(rid) :
            CachePut(rid, value) => FetchBody(results_store', rid) = value ]_vars

\* A fetch answered with the failed result that was put last, in a cache that
\* has evicted an entry.
C15_Witness ==
    /\ resp.op = "fetch" /\ writeOrder # <<>>
    /\ resp.rid = writeOrder[Len(writeOrder)]
    /\ resp.body = ErrorResult(resp.rid)
    /\ Len(writeOrder) > MAX_RESULTS

\* C16: a fetch of an identifier that has no entry answers 200 with that
\* identifier and status pending, and leaves it without an entry.
C16_AbsentIsPending ==
    [][ (resp'.op = "fetch" /\ resp'.rid \notin Keys(results_store)) =>
            /\ resp'.code = 200
            /\ resp'.body = StatusBody(resp'.rid, "pending")
            /\ resp'.rid \notin Keys(results_store') ]_vars

\* A fetch of an identifier that was written and then evicted.
C16_Witness ==
    /\ resp.op = "fetch" /\ resp.body.status = "pending"
    /\ resp.rid \in Held(writeOrder, Len(writeOrder))
    /\ resp.rid \notin Keys(results_store)

\* C17: every message on the requests topic and on the results topic has as
\* its key the identifier of its payload.
C17_KeyIsIdentifier ==
    /\ \A i \in 1..Len(reqTopic) :
          reqTopic[i].key = [utf8 |-> ValueDeserializer(reqTopic[i].value).request_id]
    /\ \A i \in 1..Len(resTopic) :
          resTopic[i].key = [utf8 |-> ValueDeserializer(resTopic[i].value).request_id]

\* C18: the identifier a submit acknowledges is the one in the request it
\* published, the caller's when the caller gave one and else a generated one
\* that no earlier request carries; the worker's result for a request carries
\* the request's identifier and the cache holds it under that identifier.
C18_OneIdentifier ==
    /\ (resp.op = "submit" /\ resp.code = 202) =>
          /\ ValueDeserializer(reqTopic[Len(reqTopic)].value).request_id
                 = resp.body.request_id
          /\ resp.rid # None => resp.body.request_id = resp.rid
          /\ resp.rid = None =>
                /\ resp.body.request_id \in Uuids
                /\ \A j \in 1..(Len(reqTopic) - 1) :
                      ValueDeserializer(reqTopic[j].value).request_id
                          # resp.body.request_id
    /\ \A j \in 1..Len(resTopic) :
          ValueDeserializer(resTopic[j].value).request_id
              = ValueDeserializer(reqTopic[j].value).request_id
    /\ \A i \in 1..Len(results_store) :
          /\ results_store[i].v.request_id = results_store[i].k
          /\ \E j \in 1..iPos :
                ValueDeserializer(resTopic[j].value) = results_store[i].v

\* A fetch of a generated identifier that gives its completed result.
C18_Witness ==
    /\ resp.op = "fetch" /\ resp.rid \in Uuids
    /\ resp.body.status = "completed" /\ resp.body.request_id = resp.rid
    /\ \E j \in 1..Len(reqTopic) :
          ValueDeserializer(reqTopic[j].value).request_id = resp.rid

\* C19: in every state of the gateway the health check reports
\* kafka_connected and "healthy" exactly when the producer is started, and
\* not connected and "degraded" otherwise.
C19_HealthTracksConnection ==
    LET health == HealthResponse(KafkaOk(producer)) IN
    IF producer = "started"
    THEN health.kafka_connected /\ health.status = "healthy"
    ELSE ~health.kafka_connected /\ health.status = "degraded"

\* C20 as stated: a commit that succeeds comes after a result that was
\* published successfully for the request in hand.
C20_ResultBeforeCommit ==
    \A i \in 1..Len(wLog) :
        (wLog[i].ev = "commit" /\ wLog[i].ok) =>
            \E j \in 1..(i - 1) : wLog[j].ev = "publish" /\ wLog[j].ok

\* C20 as amended: every commit comes after an attempt to publish a result,
\* completed or failed, under the identifier the worker holds for the request;
\* the attempt may have failed.
C20_AttemptBeforeCommit ==
    \A i \in 1..Len(wLog) :
        wLog[i].ev = "commit" =>
            \E j \in 1..(i - 1) :
                /\ wLog[j].ev = "publish"
                /\ wLog[j].doc.request_id = request_id
                /\ wLog[j].doc.status \in {"completed", "failed"}

\* A request acknowledged after both of its publish attempts failed.
C20_Witness ==
    /\ TurnDone /\ wCommitted = wPos
    /\ CountEvents(wLog, "publish") = 2 /\ CountSent(wLog) = 0

\* C21: a failed result is published for a request only when its decoding or
\* its classification failed.
C21_FailedOnlyOnFailure ==
    \A i \in 1..Len(wLog) :
        (wLog[i].ev = "publish" /\ wLog[i].ok /\ wLog[i].doc.status = "failed")
            => ~wLog[1].ok

\* C22: the worker's position never goes back; a step that classifies takes
\* the record at the position, which no commit covers yet, moves the position
\* past it and classifies once, so that no record is classified twice and none
\* after its commit.
C22_ClassifiedOnce ==
    [][ /\ wPos' >= wPos
        /\ wCommitted' <= wPos'
        /\ (wpc = "poll" /\ wpc' \in {"publish", "err_publish"}
                /\ wLog'[1].ev = "classify") =>
              /\ wPos' = wPos + 1
              /\ wCommitted <= wPos
              /\ CountEvents(wLog', "classify") = 1 ]_vars

\* The second request is classified after the first, whose classification
\* failed, was committed.
C22_Witness ==
    /\ wPos = 2 /\ wCommitted >= 1
    /\ wLog # <<>> /\ wLog[1].ev = "classify"
    /\ PredictRaises(ValueDeserializer(At(reqTopic, 0).value).text)

\* C23: a failed result carries the identifier of the request in hand when the
\* request decoded, and "unknown" when it did not.
C23_FailedResultIdentifier ==
    \A i \in 1..Len(wLog) :
        (wLog[i].ev = "publish" /\ wLog[i].doc.status = "failed") =>
            IF wLog[1].ev = "decode"
            THEN wLog[i].doc.request_id = UnknownId
            ELSE wLog[i].doc.request_id = InHand.request_id

\* The second message failed to decode after a first one that decoded, and
\* its failed result went out.
C23_Witness ==
    /\ wPos = 2 /\ wLog # <<>> /\ wLog[1].ev = "decode"
    /\ CountSent(wLog) = 1
    /\ ~DeserializerRaises(At(reqTopic, 0).value)
    /\ ValidRequestDoc(ValueDeserializer(At(reqTopic, 0).value))

\* C24: what a fetch sees is a cache between two puts: at most MAX_RESULTS
\* entries, and for its identifier either no entry, answered pending, or one
\* whole result written for that identifier.
C24_ReadsSeeWholePuts ==
    resp.op = "fetch" =>
        /\ Len(results_store) <= MAX_RESULTS
        /\ \/ /\ resp.rid \notin Keys(results_store)
              /\ resp.body = StatusBody(resp.rid, "pending")
           \/ /\ resp.rid \in Keys(results_store)
              /\ resp.body \in CacheResults(resp.rid)
              /\ resp.body = StoreGet(results_store, resp.rid)

\* A fetch of the oldest entry of a full cache that has evicted an entry.
C24_Witness ==
    /\ resp.op = "fetch" /\ Len(results_store) = MAX_RESULTS
    /\ Len(writeOrder) > MAX_RESULTS
    /\ resp.rid = results_store[1].k
    /\ resp.body.status = "completed"

\* C25: when run_worker has ended after its consumer connected, no handle of
\* the worker is left started.
C25_EndedWorkerHoldsNoHandle ==
    (wpc \in {"stopped", "crashed"} /\ wConsumer # None) =>
        wConsumer = "stopped" /\ wProducer # "started"

\* The number of times an event occurs in a trace.
Occurs(trace, ev) == Cardinality({ i \in 1..Len(trace) : trace[i] = ev })

\* C26: in a create_* call a sleep comes only between a failed start() and the
\* next start(); every failed start() but the max_retries-th is followed by
\* one; a start() that connects ends the call. So the call sleeps as often as
\* it failed when it returns, and max_retries - 1 times when it gives up.
C26_SleepBetweenAttempts ==
    boot.who # "none" =>
        LET t == boot.trace
            F == Occurs(t, "failed")
        IN  /\ \A i \in 1..Len(t) :
                  t[i] = "sleep" =>
                      /\ i > 1 /\ t[i - 1] = "failed"
                      /\ i < Len(t) /\ t[i + 1] \in {"connected", "failed"}
            /\ \A i \in 1..Len(t) :
                  t[i] = "failed" =>
                      IF Occurs(SubSeq(t, 1, i), "failed") = boot.max_retries
                      THEN i = Len(t)
                      ELSE i < Len(t) /\ t[i + 1] = "sleep"
            /\ \A i \in 1..Len(t) : t[i] = "connected" => i = Len(t)
            /\ boot.returned => Occurs(t, "sleep") = F
            /\ (~boot.returned /\ F > 0) =>
                  /\ F = boot.max_retries
                  /\ Occurs(t, "sleep") = boot.max_retries - 1

\* The ingestor's consumer gave up after two attempts and one sleep.
C26_Witness ==
    /\ boot.who = "gateway_consumer"
    /\ boot.trace = <<"failed", "sleep", "failed">>

\* The handle a create_* call was to give its caller.
HandleOf(who) ==
    CASE who = "gateway_producer" -> producer
      [] who = "gateway_consumer" -> consumer
      [] who = "worker_consumer" -> wConsumer
      [] who = "worker_producer" -> wProducer

\* C27: a create_* call returns a handle only after a start() that connected,
\* which is then its last; with max_retries <= 0 it makes no attempt and
\* raises; a call that raises leaves its caller without a handle.
C27_NoUnstartedHandle ==
    boot.who # "none" =>
        /\ boot.returned =>
              /\ boot.attempts >= 1 /\ boot.outcomes[boot.attempts]
              /\ boot.trace[Len(boot.trace)] = "connected"
              /\ HandleOf(boot.who) = "started"
        /\ ~boot.returned => HandleOf(boot.who) = None
        /\ boot.max_retries <= 0 => ~boot.returned /\ boot.attempts = 0

\* The worker's producer bootstrap with max_retries = -1: no attempt, an error.
C27_Witness ==
    /\ boot.who = "worker_producer" /\ boot.max_retries < 0
    /\ ~boot.returned /\ boot.attempts = 0 /\ wpc = "crashed"

====
